---- MODULE Spec2Model ----
(***************************************************************************)
(* Model of ChatHandler.stream_answer_with_tools (src/core/chat_handler.py) *)
(* with the tool registry (src/tools/mcp_tools.py) and the persistence     *)
(* functions (src/supabase_db.py) it calls.  One turn of the generator is  *)
(* a walk of pc through the positions of the code; the language model, the *)
(* tools' outcomes and the persistence backend are the environment.        *)
(* Spec is one turn; SpecTurns lets further turns follow on the same       *)
(* handler; SpecDispatch starts where the first response carries one tool  *)
(* call of any shape; SpecProvenance starts where the summary of a tool    *)
(* turn is rendered.                                                       *)
(***************************************************************************)
EXTENDS Integers, Sequences, FiniteSets, TLC

\* ------------------------------------------------------------------ bounds
MaxToolCalls == 4         \* tool-call requests the model issues in one turn
MaxCallsPerResponse == 2  \* tool-call requests in one model response
MaxChunks == 2            \* chunks of one streaming response
MaxFaulty == 1            \* requests of one turn that cannot succeed
MaxIllTyped == 1          \* values of a wrong type in one request
MaxTurns == 2             \* turns of one conversation
MaxProvCalls == 3         \* tool calls of a turn whose summary is rendered
MaxDocs == 2              \* documents a search may cite
MaxUrls == 4              \* urls the web holds on a subject
MaxChats == 2             \* chats the tables hold before a click
MaxRows == 4              \* messages the tables hold
MaxThreads == 2           \* calls of the generator that run concurrently

\* ------------------------------------------------- constants of the program
max_iterations_one_more == 3 + 1
max_iterations_one_less == 3 - 1
max_iterations == 3
WebCap == 3                \* [:3], lines 205 and 217

NoChat == 0               \* current_chat_id is None
NoneV == "None"           \* Python None / a key a dict does not carry

\* Texts are sequences of strings; joining texts is concatenation.
UserMsgs == {<<"what", "is", "lstm">>}
\* message.content of a model response: None or a text
Contents == {[isNone |-> TRUE, text |-> <<>>],
             [isNone |-> FALSE, text |-> <<"a">>]}
\* The k-th chunk of a stream carries no content, or a token of its own
\* (tokens differ, so that their order shows in what is joined).
Token(k) == <<"token", ToString(k)>>
Chunks(k) == {<<>>, Token(k)}

\* The names registered in the tool registry.
TOOL_FUNCTIONS ==
    {"search_documents", "search_web", "extract_performance_metrics",
     "create_performance_comparison", "create_performance_chart",
     "synthesize_research_report", "get_financial_data",
     "compare_financial_assets"}

\* the list with create_financial_chart, a function of mcp_tools.py that
\* the registry does not hold, advertised too
AVAILABLE_TOOLS_with_unregistered ==
    <<"search_documents", "search_web", "extract_performance_metrics",
      "create_performance_comparison", "create_performance_chart",
      "synthesize_research_report", "get_financial_data",
      "compare_financial_assets", "create_financial_chart">>

\* The names of the tools advertised to the model, in the order of the list.
AVAILABLE_TOOLS ==
    <<"search_documents", "search_web", "extract_performance_metrics",
      "create_performance_comparison", "create_performance_chart",
      "synthesize_research_report", "get_financial_data",
      "compare_financial_assets">>

\* the names a response of the model may carry as advertised
Advertised == {AVAILABLE_TOOLS[i] : i \in 1..Len(AVAILABLE_TOOLS)}

\* Parameters of the registered functions: the ones without a default,
\* and all that the signature accepts.
RequiredParams(name) ==
    CASE name = "search_documents" -> {"query"}
      [] name = "search_web" -> {"query"}
      [] name = "extract_performance_metrics" -> {"text", "technology"}
      [] name = "create_performance_comparison" -> {"data1", "data2"}
      [] name = "create_performance_chart" -> {"metrics_data"}
      [] name = "synthesize_research_report" ->
            {"document_results", "web_results"}
      [] name = "get_financial_data" -> {"symbol"}
      [] name = "compare_financial_assets" -> {"symbols"}
      [] OTHER -> {}

AcceptedParams(name) ==
    CASE name = "search_documents" -> {"query", "num_results", "retriever"}
      [] name = "search_web" -> {"query", "num_results"}
      [] name = "extract_performance_metrics" -> {"text", "technology"}
      [] name = "create_performance_comparison" -> {"data1", "data2", "title"}
      [] name = "create_performance_chart" -> {"metrics_data", "title"}
      [] name = "synthesize_research_report" ->
            {"document_results", "web_results", "comparison_data"}
      [] name = "get_financial_data" -> {"symbol", "period", "data_type"}
      [] name = "compare_financial_assets" ->
            {"symbols", "period", "data_types"}
      [] OTHER -> {}

\* AVAILABLE_TOOLS: the parameters the schema sent to the model declares
\* for a tool, and the ones it lists as required (the schema of
\* search_documents does not declare retriever).
SchemaParams(name) == AcceptedParams(name) \ {"retriever"}
SchemaRequired(name) == RequiredParams(name)

\* tool_call.function.arguments as the model sends it: a string that
\* json.loads rejects, a JSON value that is not an object, or an object,
\* kept as the set of its keys.
BadJson == {"<bad json>"}
NotDict == {"<not a dict>"}
IsDict(a) == a # BadJson /\ a # NotDict

\* The requests the model may put in a response (name, raw arguments).
RequestShapes ==
    { [name |-> "search_documents", args |-> {"query"}],
      [name |-> "search_web", args |-> {}],
      [name |-> "no_such_tool", args |-> {"query"}],
      [name |-> "search_web", args |-> BadJson],
      [name |-> "search_web", args |-> NotDict] }

\* ---------------------------------------------------------------- state
VARIABLES
    pc,                  \* position of the generator
    retriever,           \* self.retriever is set (truthy)
    current_chat_id,     \* self.current_chat_id
    chats,               \* table chats: title by id
    chat_messages,       \* table chat_messages, in insertion order
    user_msg,            \* argument of the turn
    messages,            \* the message history handed to the model
    tool_calls,          \* tool_calls of the response being processed
    idx,                 \* position of the for loop in tool_calls
    function_calls_made,
    iteration,
    full_response,       \* sequence of the tokens joined so far
    exc,                 \* the exception caught by the except clause
    output,              \* the events yielded in this turn
    modelCalls,          \* history: non-streaming invocations of this turn
    streamCalls,         \* history: streaming invocations of this turn
    chunksSeen,          \* history: chunks read from the stream
    chunks,              \* history: the content of each chunk read
    requested,           \* history: tool calls of every response, in order
    dispatchLog,         \* history: tool calls handed to execute_function_call
    lastContent,         \* history: content of the latest tool-free response
    userIdx,             \* history: row of this turn's user message
    chat_window,         \* the rows the Chatbot component shows
    abandoned,           \* the user has given up the request being served
    turns                \* the calls of the generator running in other threads

vars == <<pc, retriever, current_chat_id, chats, chat_messages,
          user_msg, messages, tool_calls, idx, function_calls_made,
          iteration, full_response, exc, output, modelCalls, streamCalls,
          chunksSeen, chunks, requested, dispatchLog, lastContent, userIdx,
          chat_window, abandoned, turns>>

\* what the generator of the turn neither reads nor writes
ui == <<chat_window, abandoned, turns>>

db == <<chats, chat_messages>>
turnLocal == <<messages, tool_calls, idx, function_calls_made, iteration,
               full_response>>
hist == <<modelCalls, streamCalls, chunksSeen, chunks, requested,
          dispatchLog, lastContent>>

\* ------------------------------------------------------- tool registry
\* What the orchestrator reads of the value a registered function returns:
\* the document sources and the urls of the web results, in the order of
\* the returned lists (a source or an url is a number, its rank among the
\* strings in ascending order; 0 is a result that carries no url), and the
\* chart image (0: the value carries none).
Data(sources, results, chart) ==
    [sources |-> sources, results |-> results, chart |-> chart]

\* what data.get(...) reads of a value that carries none of them
NoData == Data(<<>>, <<>>, 0)

\* The documents the retriever finds for the query of the turn, in the order
\* list(sources) gives them.
Corpus == <<2, 1>>

\* The value the body of a registered function returns in the turn.
ToolReturn(function_name) ==
    CASE function_name = "search_documents" -> Data(Corpus, <<>>, 0)
      [] function_name = "search_web" -> Data(<<>>, <<1, 2>>, 0)
      [] function_name = "create_performance_comparison" -> Data(<<>>, <<>>, 1)
      [] function_name = "create_performance_chart" -> Data(<<>>, <<>>, 1)
      [] OTHER -> NoData

\* The dict execute_function_call returns, as the set of its keys and their
\* values (a key the dict lacks keeps a default that is never read).
Envelope(keys, success, data, error) ==
    [keys |-> keys, success |-> success, data |-> data, error |-> error]

NoEnvelope == Envelope({}, FALSE, NoData, NoneV)

\* dict.get(key) on an envelope, for the boolean key
GetSuccess(result) == "success" \in result.keys /\ result.success

\* TOOL_FUNCTIONS[function_name](**arguments): binding the keyword
\* arguments to the signature raises TypeError when a parameter without
\* default is missing or a keyword is not a parameter.
BindsToSignature(name, arguments) ==
    /\ RequiredParams(name) \subseteq arguments
    /\ arguments \subseteq AcceptedParams(name)

\* The body of a registered function: search_documents raises when it is
\* handed no retriever; every other statement of every body is inside a
\* try block that returns a dict.
BodyRaises(name, arguments) ==
    name = "search_documents" /\ "retriever" \notin arguments

\* What a call does: it raises an exception or returns a value.
Raises(e) == [raises |-> e, value |-> NoneV]
Returns(v) == [raises |-> NoneV, value |-> v]
Raised(r) == r.raises # NoneV

\* arguments.update(kwargs): where the value under the key retriever comes
\* from, the keyword arguments of the orchestrator ("injected"), the
\* arguments of the model ("model", a JSON value that is not empty), or
\* nowhere
RetrieverArgument(arguments, kwargs) ==
    IF "retriever" \in kwargs THEN "injected"
    ELSE IF "retriever" \in arguments THEN "model"
    ELSE NoneV

\* arguments.update(kwargs); TOOL_FUNCTIONS[function_name](**arguments).
\* A value of the model in the place of the retriever passes the test of
\* line 31 and has no method get_relevant_documents: the except clause of
\* search_documents returns the dict of a search that found nothing.
CallTool(function_name, arguments, kwargs) ==
    LET bound == arguments \cup kwargs IN
    IF ~BindsToSignature(function_name, bound) THEN Raises("TypeError")
    ELSE IF BodyRaises(function_name, bound) THEN Raises("ValueError")
    ELSE IF RetrieverArgument(arguments, kwargs) = "model"
    THEN Returns(NoData)
    ELSE Returns(ToolReturn(function_name))

\* the call without its try block
execute_function_call_uncaught(function_name, arguments, kwargs) ==
    IF function_name \notin TOOL_FUNCTIONS
    THEN Returns(Envelope({"error"}, FALSE, NoData, "not found"))
    ELSE IF ~IsDict(arguments)
    THEN Raises("AttributeError")
    ELSE LET r == CallTool(function_name, arguments, kwargs) IN
         IF Raised(r)
         THEN Raises(r.raises)
         ELSE Returns(Envelope({"success", "data"}, TRUE, r.value, NoneV))

execute_function_call(function_name, arguments, kwargs) ==
    IF function_name \notin TOOL_FUNCTIONS
    THEN Returns(Envelope({"error"}, FALSE, NoData, "not found"))
    ELSE IF ~IsDict(arguments)
    THEN Returns(Envelope({"success", "error"}, FALSE, NoData,
                          "AttributeError"))
    ELSE LET r == CallTool(function_name, arguments, kwargs) IN
         IF Raised(r)
         THEN Returns(Envelope({"success", "error"}, FALSE, NoData, r.raises))
         ELSE Returns(Envelope({"success", "data"}, TRUE, r.value, NoneV))

\* arguments after the call: arguments.update(kwargs) changes the dict of
\* a registered function's call in place.
ArgumentsAfterCall(function_name, arguments, kwargs) ==
    IF function_name \in TOOL_FUNCTIONS /\ IsDict(arguments)
    THEN arguments \cup kwargs
    ELSE arguments

\* ------------------------------------------------------------- helpers
Event(kind, text) == [kind |-> kind, text |-> text]

Message(role, content, calls, id, result) ==
    [role |-> role, content |-> content, tool_calls |-> calls,
     tool_call_id |-> id, result |-> result]

Row(chat_id, role, content) ==
    [chat_id |-> chat_id, role |-> role, content |-> content]

RECURSIVE Flatten(_)
Flatten(ss) == IF ss = <<>> THEN <<>> ELSE Head(ss) \o Flatten(Tail(ss))

\* A request that fails whatever the tools do: an unknown name, arguments
\* that are no dict or lack a required parameter.
Faulty(tc) ==
    \/ tc.name \notin TOOL_FUNCTIONS
    \/ ~IsDict(tc.args)
    \/ ~(RequiredParams(tc.name) \subseteq tc.args)

FaultyCount(tcs) == Cardinality({i \in 1..Len(tcs) : Faulty(tcs[i])})

\* The tool calls of a model response: n requests, at most faulty of them
\* faulty, numbered on from first (the model gives every tool call of a
\* turn an id of its own).
Responses(n, first, faulty) ==
    { tcs \in { [i \in 1..n |-> [id |-> first + i - 1, name |-> f[i].name,
                                  args |-> f[i].args]] :
                f \in [1..n -> RequestShapes] } :
      FaultyCount(tcs) <= faulty }

Min(a, b) == IF a < b THEN a ELSE b

RequestedCount == Len(Flatten(requested))
FaultyLeft == MaxFaulty - FaultyCount(Flatten(requested))

\* initial_message.content or ""
ContentOrEmpty(c) == IF c.isNone THEN <<>> ELSE c.text

\* json.loads(tool_call.function.arguments)
json_loads(raw) ==
    IF raw = BadJson THEN Raises("JSONDecodeError") ELSE Returns(raw)

\* kwargs["retriever"] = self.retriever, for search_documents only
InjectedKwargs(function_name) ==
    IF function_name = "search_documents" /\ retriever
    THEN {"retriever"} ELSE {}

SYSTEM_PROMPT == <<"system prompt">>

ErrorText(e) == <<"Error: ", e>>

\* " ".join(re.findall(r"\w+", user_msg)[:4])
ShortTitle(msg) == SubSeq(msg, 1, Min(4, Len(msg)))

tool_name_map(name) ==
    CASE name = "search_documents" -> "Document Search"
      [] name = "search_web" -> "Web Search"
      [] name = "extract_performance_metrics" -> "Performance Analysis"
      [] name = "create_performance_comparison" -> "Performance Comparison"
      [] name = "create_performance_chart" -> "Chart Generation"
      [] name = "synthesize_research_report" -> "Report Synthesis"
      [] OTHER -> name

\* friendly_names: one name per distinct function, in first-seen order
RECURSIVE FriendlyNames(_, _)
FriendlyNames(fcs, seen) ==
    IF fcs = <<>> THEN <<>>
    ELSE LET f == Head(fcs).function IN
         IF f \in seen THEN FriendlyNames(Tail(fcs), seen)
         ELSE <<tool_name_map(f)>> \o FriendlyNames(Tail(fcs), seen \cup {f})

\* ------------------------------------------------------------------ Init
Init ==
    /\ pc = "idle"
    /\ retriever \in BOOLEAN
    /\ current_chat_id = NoChat
    /\ chats = <<>>
    /\ chat_messages = <<>>
    /\ user_msg = <<>>
    /\ messages = <<>>
    /\ tool_calls = <<>>
    /\ idx = 1
    /\ function_calls_made = <<>>
    /\ iteration = 0
    /\ full_response = <<>>
    /\ exc = NoneV
    /\ output = <<>>
    /\ modelCalls = 0
    /\ streamCalls = 0
    /\ chunksSeen = 0
    /\ chunks = <<>>
    /\ requested = <<>>
    /\ dispatchLog = <<>>
    /\ lastContent = [isNone |-> TRUE, text |-> <<>>]
    /\ userIdx = 0
    /\ chat_window = <<>>
    /\ abandoned = FALSE
    /\ turns = <<>>

\* --------------------------------------------------------------- actions
Yield(ev) == output' = Append(output, ev)

\* an exception reaches the except clause of the turn
Catch(e) == pc' = "except" /\ exc' = e

\* the generator has returned, or an exception has left it
TurnOver == pc \in {"done", "failed", "raised"}

\* stream_answer_with_tools(user_msg) is called: lines 22-25
StartTurn(u) ==
    /\ pc = "idle"
    /\ user_msg' = u
    /\ pc' = IF current_chat_id = NoChat THEN "create" ELSE "add_user"
    /\ messages' = <<>>
    /\ tool_calls' = <<>>
    /\ idx' = 1
    /\ function_calls_made' = <<>>
    /\ iteration' = 0
    /\ full_response' = <<>>
    /\ exc' = NoneV
    /\ output' = <<>>
    /\ modelCalls' = 0
    /\ streamCalls' = 0
    /\ chunksSeen' = 0
    /\ chunks' = <<>>
    /\ requested' = <<>>
    /\ dispatchLog' = <<>>
    /\ lastContent' = [isNone |-> TRUE, text |-> <<>>]
    /\ userIdx' = 0
    /\ UNCHANGED <<ui, retriever, current_chat_id, db>>

\* line 26: self.current_chat_id = create_chat("New Chat")
CreateChat ==
    /\ pc = "create"
    /\ \/ /\ chats' = Append(chats, <<"New Chat">>)
          /\ current_chat_id' = Len(chats) + 1
          /\ pc' = "add_user"
       \/ /\ pc' = "raised"
          /\ UNCHANGED <<chats, current_chat_id>>
    /\ UNCHANGED <<ui, retriever, chat_messages, user_msg, turnLocal, exc,
                   output, hist, userIdx>>

\* lines 28-29: add_message(user), then the echo
AddUserMessage ==
    /\ pc = "add_user"
    /\ \/ /\ chat_messages' =
                Append(chat_messages, Row(current_chat_id, "user", user_msg))
          /\ userIdx' = Len(chat_messages) + 1
          /\ Yield(Event("echo", user_msg))
          /\ pc' = "invoke_first"
       \/ /\ pc' = "raised"
          /\ UNCHANGED <<chat_messages, userIdx, output>>
    /\ UNCHANGED <<ui, retriever, current_chat_id, chats, user_msg,
                   turnLocal, exc, hist>>

\* what no step between the echo and the saving of the answer changes
fixed == <<ui, retriever, current_chat_id, chats, chat_messages, user_msg,
           userIdx>>

\* the non-streaming responses the model may give now
ResponseSizes == 0..Min(MaxCallsPerResponse, MaxToolCalls - RequestedCount)

\* lines 33-51 and 155-158: the history is built, the model is invoked
InvokeFirst ==
    /\ pc = "invoke_first"
    /\ messages' = <<Message("system", SYSTEM_PROMPT, <<>>, 0, NoEnvelope),
                     Message("user", user_msg, <<>>, 0, NoEnvelope)>>
    /\ modelCalls' = modelCalls + 1
    /\ \/ /\ Catch("model error")
          /\ UNCHANGED <<tool_calls, idx, full_response, output, requested,
                         lastContent>>
       \/ \E c \in Contents, n \in ResponseSizes :
            \E tcs \in Responses(n, RequestedCount + 1, FaultyLeft) :
              /\ requested' = Append(requested, tcs)
              /\ exc' = exc
              /\ IF tcs # <<>>
                 THEN /\ Yield(Event("progress", <<"Executing tools...">>))
                      /\ tool_calls' = tcs
                      /\ idx' = 1
                      /\ pc' = "tool_first"
                      /\ UNCHANGED <<full_response, lastContent>>
                 ELSE /\ full_response' = ContentOrEmpty(c)
                      /\ Yield(Event("token", ContentOrEmpty(c)))
                      /\ lastContent' = c
                      /\ pc' = "save_bot"
                      /\ UNCHANGED <<tool_calls, idx>>
    /\ UNCHANGED <<fixed, function_calls_made, iteration, streamCalls,
                   chunksSeen, chunks, dispatchLog>>

\* the result appended before the assistant message that carries the call
Recorded_result_first(tc, arguments, result) ==
    /\ function_calls_made' =
          Append(function_calls_made,
                 [function |-> tc.name,
                  arguments |-> ArgumentsAfterCall(tc.name, arguments,
                                                   InjectedKwargs(tc.name)),
                  result |-> result])
    /\ messages' = messages \o
          <<Message("tool", <<"json.dumps">>, <<>>, tc.id, result),
            Message("assistant", <<>>, <<tc>>, 0, NoEnvelope)>>

\* the assistant message appended without the result of its call
Recorded_call_only(tc, arguments, result) ==
    /\ function_calls_made' =
          Append(function_calls_made,
                 [function |-> tc.name,
                  arguments |-> ArgumentsAfterCall(tc.name, arguments,
                                                   InjectedKwargs(tc.name)),
                  result |-> result])
    /\ messages' = messages \o
          <<Message("assistant", <<>>, <<tc>>, 0, NoEnvelope)>>

\* lines 66-82 and 118-134: the call and its result are recorded
Recorded(tc, arguments, result) ==
    /\ function_calls_made' =
          Append(function_calls_made,
                 [function |-> tc.name,
                  arguments |-> ArgumentsAfterCall(tc.name, arguments,
                                                   InjectedKwargs(tc.name)),
                  result |-> result])
    /\ messages' = messages \o
          <<Message("assistant", <<>>, <<tc>>, 0, NoEnvelope),
            Message("tool", <<"json.dumps">>, <<>>, tc.id, result)>>

\* lines 54-84: one pass of the for loop over initial_message.tool_calls
ToolFirst ==
    /\ pc = "tool_first"
    /\ LET tc == tool_calls[idx]
           parsed == json_loads(tc.args)
           last == idx = Len(tool_calls)
       IN IF Raised(parsed)
          THEN /\ Catch(parsed.raises)
               /\ UNCHANGED <<messages, idx, function_calls_made, iteration,
                              output, dispatchLog>>
          ELSE IF ~IsDict(parsed.value)
          THEN \* arguments.get fails on a value that is no dict
               /\ Catch("AttributeError")
               /\ UNCHANGED <<messages, idx, function_calls_made, iteration,
                              output, dispatchLog>>
          ELSE LET arguments == parsed.value
                   marker == Event("progress",
                                <<"tool", tc.name,
                                  IF "query" \in arguments THEN "query"
                                  ELSE "Executing...">>)
                   out == execute_function_call(tc.name, arguments,
                                                InjectedKwargs(tc.name))
               IN /\ dispatchLog' = Append(dispatchLog, tc)
                  /\ IF Raised(out)
                     THEN /\ Catch(out.raises)
                          /\ Yield(marker)
                          /\ UNCHANGED <<messages, idx, function_calls_made,
                                         iteration>>
                     ELSE /\ Recorded(tc, arguments, out.value)
                          /\ idx' = idx + 1
                          /\ exc' = exc
                          /\ IF last
                             THEN /\ output' = output \o
                                     <<marker,
                                       Event("progress",
                                             <<"Tool execution complete">>)>>
                                  /\ iteration' = 0
                                  /\ pc' = "loop"
                             ELSE /\ Yield(marker)
                                  /\ pc' = pc
                                  /\ UNCHANGED iteration
    /\ UNCHANGED <<fixed, tool_calls, full_response, modelCalls, streamCalls,
                   chunksSeen, chunks, requested, lastContent>>

\* the content of the tool-free response taken as the answer
NoMoreTools_content_is_answer(c) ==
    /\ full_response' = ContentOrEmpty(c)
    /\ Yield(Event("token", ContentOrEmpty(c)))
    /\ lastContent' = c
    /\ pc' = "save_bot"

\* lines 135-139: break, the final response is to be generated
NoMoreTools(c) ==
    /\ Yield(Event("progress", <<"Generating final response...">>))
    /\ lastContent' = c
    /\ pc' = "stream_open"
    /\ UNCHANGED full_response

\* the round asked for without counting it
InvokeMore_no_count ==
    /\ pc = "loop"
    /\ iteration < max_iterations
    /\ iteration' = iteration
    /\ modelCalls' = modelCalls + 1
    /\ \/ /\ Catch("model error")
          /\ UNCHANGED <<tool_calls, idx, output, requested, lastContent,
                         full_response>>
       \/ \E c \in Contents, n \in ResponseSizes :
            \E tcs \in Responses(n, RequestedCount + 1, FaultyLeft) :
              /\ requested' = Append(requested, tcs)
              /\ exc' = exc
              /\ IF tcs # <<>>
                 THEN /\ Yield(Event("progress",
                                     <<"Additional tools needed",
                                       ToString(iteration + 1)>>))
                      /\ tool_calls' = tcs
                      /\ idx' = 1
                      /\ pc' = "tool_more"
                      /\ UNCHANGED <<lastContent, full_response>>
                 ELSE /\ NoMoreTools(c)
                      /\ UNCHANGED <<tool_calls, idx>>
    /\ UNCHANGED <<fixed, messages, function_calls_made, streamCalls,
                   chunksSeen, chunks, dispatchLog>>

\* lines 90-103: another round is asked for
InvokeMore ==
    /\ pc = "loop"
    /\ iteration < max_iterations
    /\ iteration' = iteration + 1
    /\ modelCalls' = modelCalls + 1
    /\ \/ /\ Catch("model error")
          /\ UNCHANGED <<tool_calls, idx, output, requested, lastContent,
                         full_response>>
       \/ \E c \in Contents, n \in ResponseSizes :
            \E tcs \in Responses(n, RequestedCount + 1, FaultyLeft) :
              /\ requested' = Append(requested, tcs)
              /\ exc' = exc
              /\ IF tcs # <<>>
                 THEN /\ Yield(Event("progress",
                                     <<"Additional tools needed",
                                       ToString(iteration')>>))
                      /\ tool_calls' = tcs
                      /\ idx' = 1
                      /\ pc' = "tool_more"
                      /\ UNCHANGED <<lastContent, full_response>>
                 ELSE /\ NoMoreTools(c)
                      /\ UNCHANGED <<tool_calls, idx>>
    /\ UNCHANGED <<fixed, messages, function_calls_made, streamCalls,
                   chunksSeen, chunks, dispatchLog>>

\* lines 90 and 139: the while condition fails
LoopExit ==
    /\ pc = "loop"
    /\ ~(iteration < max_iterations)
    /\ Yield(Event("progress", <<"Generating final response...">>))
    /\ pc' = "stream_open"
    /\ UNCHANGED <<fixed, turnLocal, exc, hist>>

\* lines 106-134: one pass of the for loop over the additional tool calls
ToolMore ==
    /\ pc = "tool_more"
    /\ LET tc == tool_calls[idx]
           parsed == json_loads(tc.args)
           last == idx = Len(tool_calls)
       IN IF Raised(parsed)
          THEN /\ Catch(parsed.raises)
               /\ UNCHANGED <<messages, idx, function_calls_made, output,
                              dispatchLog>>
          ELSE LET arguments == parsed.value
                   marker == Event("progress", <<"Calling:", tc.name>>)
                   out == execute_function_call(tc.name, arguments,
                                                InjectedKwargs(tc.name))
               IN /\ dispatchLog' = Append(dispatchLog, tc)
                  /\ Yield(marker)
                  /\ IF Raised(out)
                     THEN /\ Catch(out.raises)
                          /\ UNCHANGED <<messages, idx, function_calls_made>>
                     ELSE /\ Recorded(tc, arguments, out.value)
                          /\ idx' = idx + 1
                          /\ exc' = exc
                          /\ pc' = IF last THEN "loop" ELSE pc
    /\ UNCHANGED <<fixed, tool_calls, iteration, full_response, modelCalls,
                   streamCalls, chunksSeen, chunks, requested, lastContent>>

\* lines 142-148: the streaming call
StreamOpen ==
    /\ pc = "stream_open"
    /\ streamCalls' = streamCalls + 1
    /\ \/ /\ Catch("model error")
          /\ UNCHANGED full_response
       \/ /\ full_response' = <<>>
          /\ pc' = "streaming"
          /\ exc' = exc
    /\ UNCHANGED <<fixed, messages, tool_calls, idx, function_calls_made,
                   iteration, output, modelCalls, chunksSeen, chunks, requested,
                   dispatchLog, lastContent>>

\* the token put in front of what has been received
Accumulate_prepend(response, token) == token \o response

\* line 152: full_response += token
Accumulate(response, token) == response \o token

\* lines 149-153: one chunk of the stream
StreamChunk ==
    /\ pc = "streaming"
    /\ chunksSeen < MaxChunks
    /\ chunksSeen' = chunksSeen + 1
    /\ \E chunk \in Chunks(chunksSeen') :
          /\ chunks' = Append(chunks, chunk)
          /\ IF chunk # <<>>
             THEN /\ full_response' = Accumulate(full_response, chunk)
                  /\ Yield(Event("token", chunk))
             ELSE UNCHANGED <<full_response, output>>
    /\ UNCHANGED <<pc, fixed, messages, tool_calls, idx, function_calls_made,
                   iteration, exc, modelCalls, streamCalls, requested,
                   dispatchLog, lastContent>>

\* line 149: reading the stream raises
StreamRaise ==
    /\ pc = "streaming"
    /\ Catch("stream error")
    /\ UNCHANGED <<fixed, turnLocal, output, hist>>

\* the marker of the final response yielded once the stream has ended
StreamEnd_late_marker ==
    /\ pc = "streaming"
    /\ pc' = "save_bot"
    /\ Yield(Event("progress", <<"Generating final response...">>))
    /\ UNCHANGED <<fixed, turnLocal, exc, hist>>

\* line 149: the stream ends
StreamEnd ==
    /\ pc = "streaming"
    /\ pc' = "save_bot"
    /\ UNCHANGED <<fixed, turnLocal, exc, output, hist>>

\* line 161: add_message(self.current_chat_id, "bot", full_response)
SaveBot ==
    /\ pc = "save_bot"
    /\ \/ /\ chat_messages' =
                Append(chat_messages,
                       Row(current_chat_id, "bot", full_response))
          /\ pc' = "title"
          /\ exc' = exc
       \/ /\ Catch("persistence error")
          /\ UNCHANGED chat_messages
    /\ UNCHANGED <<ui, retriever, current_chat_id, chats, user_msg, userIdx,
                   turnLocal, output, hist>>

\* lines 164-165: update_chat_title
UpdateTitle ==
    /\ pc = "title"
    /\ \/ /\ chats' = [chats EXCEPT ![current_chat_id] = ShortTitle(user_msg)]
          /\ pc' = "provenance"
          /\ exc' = exc
       \/ /\ Catch("persistence error")
          /\ UNCHANGED chats
    /\ UNCHANGED <<ui, retriever, current_chat_id, chat_messages, user_msg,
                   userIdx, turnLocal, output, hist>>

Range(seq) == {seq[i] : i \in 1..Len(seq)}

\* seq[:n]
Take(seq, n) == SubSeq(seq, 1, Min(n, Len(seq)))

\* the elements of a set listed from the largest down
Descending(S) ==
    LET RECURSIVE Desc(_)
        Desc(T) == IF T = {} THEN <<>>
                   ELSE LET m == CHOOSE x \in T : \A y \in T : y <= x
                        IN <<m>> \o Desc(T \ {m})
    IN Desc(S)

\* the largest first
sorted_descending(S) == Descending(S)

\* sorted(doc_sources)
sorted(S) ==
    LET RECURSIVE Asc(_)
        Asc(T) == IF T = {} THEN <<>>
                  ELSE LET m == CHOOSE x \in T : \A y \in T : x <= y
                       IN <<m>> \o Asc(T \ {m})
    IN Asc(S)

\* lines 195-201: doc_sources, the set of the sources of the successful
\* document searches
doc_sources(fcs) ==
    UNION { Range(fcs[i].result.data.sources) :
              i \in { k \in 1..Len(fcs) :
                        /\ GetSuccess(fcs[k].result)
                        /\ fcs[k].function = "search_documents" } }

\* lines 204-207: web_sources, the set of the urls of the first 3 results of
\* each successful web search
web_sources(fcs) ==
    UNION { Range(Take(fcs[i].result.data.results, WebCap)) \ {0} :
              i \in { k \in 1..Len(fcs) :
                        /\ GetSuccess(fcs[k].result)
                        /\ fcs[k].function = "search_web" } }

\* list(web_sources)[:3]: a set of strings is iterated in an order the
\* language does not fix, so the slice is any WebCap of its elements (all of
\* them when it has fewer) in any order
Listings(S) ==
    { l \in [1..Min(WebCap, Cardinality(S)) -> S] :
        \A i, j \in DOMAIN l : i # j => l[i] # l[j] }

\* the text of a source line
DocLine(n) == <<"Source:", "doc", ToString(n)>>
WebLine(n) == <<"Source:", "url", ToString(n)>>

ProvEvent(text) == Event("provenance", text)

\* lines 210-213
SourcesBlock(fcs) ==
    IF doc_sources(fcs) = {} THEN <<>>
    ELSE <<ProvEvent(<<"Sources:">>)>> \o
         [i \in 1..Cardinality(doc_sources(fcs)) |->
             ProvEvent(DocLine(sorted(doc_sources(fcs))[i]))]

\* lines 215-218
WebSourcesBlock(listing) ==
    IF listing = <<>> THEN <<>>
    ELSE <<ProvEvent(<<"Web Sources:">>)>> \o
         [i \in 1..Len(listing) |-> ProvEvent(WebLine(listing[i]))]

\* lines 226-235: the image a call contributes (0: none)
ChartOf(fc) ==
    IF /\ GetSuccess(fc.result)
       /\ fc.function \in {"create_performance_comparison",
                           "create_performance_chart"}
    THEN fc.result.data.chart ELSE 0

ChartLine(n) == <<"chart", ToString(n)>>

\* lines 221-235
RECURSIVE Charts(_)
Charts(fcs) ==
    IF fcs = <<>> THEN <<>>
    ELSE (IF ChartOf(Head(fcs)) # 0
          THEN <<ProvEvent(ChartLine(ChartOf(Head(fcs))))>> ELSE <<>>)
         \o Charts(Tail(fcs))

ToolsUsed(fcs) == ProvEvent(<<"Tools used:">> \o FriendlyNames(fcs, {}))

\* the charts put before the sources
Render_charts_first(fcs, listing) ==
    <<ToolsUsed(fcs)>> \o Charts(fcs) \o SourcesBlock(fcs)
    \o WebSourcesBlock(listing)

\* lines 189-235: the events of the summary
Render(fcs, listing) ==
    <<ToolsUsed(fcs)>> \o SourcesBlock(fcs) \o WebSourcesBlock(listing)
    \o Charts(fcs)

\* the summary yielded without the test of function_calls_made
Provenance_unconditional ==
    /\ pc = "provenance"
    /\ \E listing \in Listings(web_sources(function_calls_made)) :
          output' = output \o Render(function_calls_made, listing)
    /\ pc' = "done"
    /\ UNCHANGED <<fixed, turnLocal, exc, hist>>

\* lines 168-235: the summary of the tools used, the sources and the charts
Provenance ==
    /\ pc = "provenance"
    /\ IF function_calls_made # <<>>
       THEN \E listing \in Listings(web_sources(function_calls_made)) :
               output' = output \o Render(function_calls_made, listing)
       ELSE UNCHANGED output
    /\ pc' = "done"
    /\ UNCHANGED <<fixed, turnLocal, exc, hist>>

\* lines 237-240: the except clause
Except ==
    /\ pc = "except"
    /\ Yield(Event("error", ErrorText(exc)))
    /\ \/ /\ chat_messages' =
                Append(chat_messages,
                       Row(current_chat_id, "bot", ErrorText(exc)))
          /\ pc' = "failed"
       \/ /\ pc' = "raised"
          /\ UNCHANGED chat_messages
    /\ UNCHANGED <<ui, retriever, current_chat_id, chats, user_msg, userIdx,
                   turnLocal, exc, hist>>

Next ==
    \/ \E u \in UserMsgs : StartTurn(u)
    \/ CreateChat
    \/ AddUserMessage
    \/ InvokeFirst
    \/ ToolFirst
    \/ InvokeMore
    \/ LoopExit
    \/ ToolMore
    \/ StreamOpen
    \/ StreamChunk
    \/ StreamRaise
    \/ StreamEnd
    \/ SaveBot
    \/ UpdateTitle
    \/ Provenance
    \/ Except

Spec == Init /\ [][Next]_vars

\* ------------------------------------------------ turns of a conversation
\* the messages of the turns that follow the first
FollowUps == {<<"and", "how", "does", "gru", "differ">>}

\* the turns that have persisted their user message
TurnsStarted ==
    Cardinality({i \in 1..Len(chat_messages) : chat_messages[i].role = "user"})

\* stream_answer_with_tools(user_msg) is called again on the same handler
\* once the generator of the turn before is over: lines 22-25
NextTurn(u) ==
    /\ TurnOver
    /\ TurnsStarted < MaxTurns
    /\ user_msg' = u
    /\ pc' = IF current_chat_id = NoChat THEN "create" ELSE "add_user"
    /\ messages' = <<>>
    /\ tool_calls' = <<>>
    /\ idx' = 1
    /\ function_calls_made' = <<>>
    /\ iteration' = 0
    /\ full_response' = <<>>
    /\ exc' = NoneV
    /\ output' = <<>>
    /\ modelCalls' = 0
    /\ streamCalls' = 0
    /\ chunksSeen' = 0
    /\ chunks' = <<>>
    /\ requested' = <<>>
    /\ dispatchLog' = <<>>
    /\ lastContent' = [isNone |-> TRUE, text |-> <<>>]
    /\ userIdx' = 0
    /\ UNCHANGED <<ui, retriever, current_chat_id, db>>

NextTurns ==
    \/ Next
    \/ \E u \in FollowUps : NextTurn(u)

SpecTurns == Init /\ [][NextTurns]_vars

\* ------------------------------------------------ the summary of a turn
\* The source lists of a document search: none, one document, or all the
\* documents 1..MaxDocs (a search lists its sources in no particular order,
\* here from the largest down).
DocHits == {<<>>, <<1>>, Descending(1..MaxDocs)}

\* The result lists of a web search: none, all of what the web holds on the
\* subject (urls 1..MaxUrls), its first two or its last two hits, or a hit
\* with an empty url before one with an url.
WebHits ==
    LET web == [i \in 1..MaxUrls |-> i] IN
    {<<>>, web, SubSeq(web, 1, 2), SubSeq(web, MaxUrls - 1, MaxUrls),
     <<0, 1>>}

Call(function, arguments, result) ==
    [function |-> function, arguments |-> arguments, result |-> result]

Succeeded(data) == Envelope({"success", "data"}, TRUE, data, NoneV)

\* The entries function_calls_made may hold after a tool loop: document
\* searches, web searches, comparisons with and without chart, a chart, a
\* web search that failed and a tool that is not registered.
CallOptions ==
    { Call("search_documents", {"query", "retriever"},
           Succeeded(Data(hits, <<>>, 0))) : hits \in DocHits }
    \cup
    { Call("search_web", {"query"}, Succeeded(Data(<<>>, hits, 0))) :
        hits \in WebHits }
    \cup
    { Call("create_performance_comparison", {"data1", "data2"},
           Succeeded(Data(<<>>, <<>>, c))) : c \in {0, 1} }
    \cup
    { Call("create_performance_chart", {"metrics_data"},
           Succeeded(Data(<<>>, <<>>, 1))),
      Call("search_web", {},
           Envelope({"success", "error"}, FALSE, NoData, "TypeError")),
      Call("no_such_tool", {"query"},
           Envelope({"error"}, FALSE, NoData, "not found")) }

\* the i-th call of a turn draws an image of its own
Stamp(fc, i) ==
    IF fc.result.data.chart = 0 THEN fc
    ELSE [fc EXCEPT !.result.data.chart = i]

\* function_calls_made after the calls of f
Stamped(f) == [i \in 1..Len(f) |-> Stamp(f[i], i)]

\* the request a recorded call answers
RequestOf(fc, i) ==
    [id |-> i, name |-> fc.function, args |-> fc.arguments \ {"retriever"}]

\* The turn whose first response asked for the calls of fcs and whose second
\* asked for none, after the answer was streamed and saved and the title
\* set: the state lines 22-165 leave.
InitProvenance ==
    \E u \in UserMsgs, n \in 1..MaxProvCalls :
      \E f \in [1..n -> CallOptions] :
        LET fcs == Stamped(f)
            tcs == [i \in 1..n |-> RequestOf(f[i], i)]
        IN
        /\ pc = "provenance"
        /\ retriever = TRUE
        /\ current_chat_id = 1
        /\ chats = <<ShortTitle(u)>>
        /\ chat_messages = <<Row(1, "user", u), Row(1, "bot", Token(1))>>
        /\ user_msg = u
        /\ messages =
              <<Message("system", SYSTEM_PROMPT, <<>>, 0, NoEnvelope),
                Message("user", u, <<>>, 0, NoEnvelope)>> \o
              Flatten([i \in 1..Len(fcs) |->
                  <<Message("assistant", <<>>, <<tcs[i]>>, 0, NoEnvelope),
                    Message("tool", <<"json.dumps">>, <<>>, i,
                            fcs[i].result)>>])
        /\ tool_calls = tcs
        /\ idx = Len(tcs) + 1
        /\ function_calls_made = fcs
        /\ iteration = 1
        /\ full_response = Token(1)
        /\ exc = NoneV
        /\ output =
              <<Event("echo", u),
                Event("progress", <<"Executing tools...">>)>> \o
              [i \in 1..Len(fcs) |->
                  Event("progress",
                        <<"tool", tcs[i].name,
                          IF "query" \in tcs[i].args THEN "query"
                          ELSE "Executing...">>)] \o
              <<Event("progress", <<"Tool execution complete">>),
                Event("progress", <<"Generating final response...">>),
                Event("token", Token(1))>>
        /\ modelCalls = 2
        /\ streamCalls = 1
        /\ chunksSeen = 1
        /\ chunks = <<Token(1)>>
        /\ requested = <<tcs, <<>> >>
        /\ dispatchLog = tcs
        /\ lastContent = [isNone |-> TRUE, text |-> <<>>]
        /\ userIdx = 1
        /\ chat_window = <<>>
        /\ abandoned = FALSE
        /\ turns = <<>>

\* lines 167-235 render the summary
SpecProvenance == InitProvenance /\ [][Provenance]_vars

\* ------------------------------------------- dispatch of a single request
\* A parameter no schema declares and no signature accepts.
UndeclaredParam == "verbose"

\* the parameters a request for a tool may carry: those of its schema, one
\* that nothing declares, and the name of the keyword the orchestrator
\* injects
OfferedParams(name) ==
    (IF name \in Advertised THEN SchemaParams(name) ELSE {"query"})
    \cup {UndeclaredParam, "retriever"}

\* The requests a model response may carry when the model is free in the
\* tool it names, the parameters it supplies and the types of the values:
\* illTyped holds the declared parameters whose value is not of the declared
\* type (the registry never reads it: Python binds keyword arguments by
\* name and checks no type).
DispatchInputs ==
    UNION { UNION { { [id |-> 1, name |-> n, args |-> a, illTyped |-> t] :
                      t \in { x \in SUBSET (a \ {UndeclaredParam,
                                                  "retriever"}) :
                              Cardinality(x) <= MaxIllTyped } } :
                    a \in SUBSET OfferedParams(n) } :
            n \in Advertised \cup {"no_such_tool"} }

\* The turn where the first response of the model carries one tool call:
\* the state lines 22-51 leave.
InitDispatch ==
    \E u \in UserMsgs, tc \in DispatchInputs :
        /\ pc = "tool_first"
        /\ retriever \in BOOLEAN
        /\ current_chat_id = 1
        /\ chats = << <<"New Chat">> >>
        /\ chat_messages = <<Row(1, "user", u)>>
        /\ user_msg = u
        /\ messages = <<Message("system", SYSTEM_PROMPT, <<>>, 0, NoEnvelope),
                        Message("user", u, <<>>, 0, NoEnvelope)>>
        /\ tool_calls = <<tc>>
        /\ idx = 1
        /\ function_calls_made = <<>>
        /\ iteration = 0
        /\ full_response = <<>>
        /\ exc = NoneV
        /\ output = <<Event("echo", u),
                      Event("progress", <<"Executing tools...">>)>>
        /\ modelCalls = 1
        /\ streamCalls = 0
        /\ chunksSeen = 0
        /\ chunks = <<>>
        /\ requested = <<tool_calls>>
        /\ dispatchLog = <<>>
        /\ lastContent = [isNone |-> TRUE, text |-> <<>>]
        /\ userIdx = 1
        /\ chat_window = <<>>
        /\ abandoned = FALSE
        /\ turns = <<>>

\* the for loop of lines 54-84 dispatches the request
SpecDispatch == InitDispatch /\ [][ToolFirst]_vars

\* ------------------------------------------------- the chats of the UI
\* the handlers of the chat selector and of the New Chat button, on the
\* tables as earlier turns and clicks have left them

\* a row of the Chatbot component: [user text, bot text]
UiRow(user, bot) == [user |-> user, bot |-> bot]

\* [["System", f"Error ...: {str(e)}"]]
SystemRow(what) == UiRow(<<"System">>, <<what>>)

\* get_all_chats(): the chats ordered by created_at
get_all_chats == [i \in 1..Len(chats) |-> [id |-> i, title |-> chats[i]]]

\* get_chat_messages(chat_id): the messages of the chat ordered by created_at
get_chat_messages(chat_id) ==
    SelectSeq(chat_messages, LAMBDA r : r.chat_id = chat_id)

\* the loop that steps over the message after a user message whatever its
\* role
RECURSIVE PairRows_always_two(_, _)
PairRows_always_two(msgs, i) ==
    IF ~(i <= Len(msgs)) THEN <<>>
    ELSE IF msgs[i].role = "user"
    THEN IF i + 1 <= Len(msgs) /\ msgs[i + 1].role = "bot"
         THEN <<UiRow(msgs[i].content, msgs[i + 1].content)>> \o
              PairRows_always_two(msgs, i + 2)
         ELSE <<UiRow(msgs[i].content, <<>>)>> \o
              PairRows_always_two(msgs, i + 2)
    ELSE PairRows_always_two(msgs, i + 1)

\* lines 145-159 of the interface: the while loop from position i on
\* (positions count from 1 here)
RECURSIVE PairRows(_, _)
PairRows(msgs, i) ==
    IF ~(i <= Len(msgs)) THEN <<>>
    ELSE IF msgs[i].role = "user"
    THEN IF i + 1 <= Len(msgs) /\ msgs[i + 1].role = "bot"
         THEN <<UiRow(msgs[i].content, msgs[i + 1].content)>> \o
              PairRows(msgs, i + 2)
         ELSE <<UiRow(msgs[i].content, <<>>)>> \o PairRows(msgs, i + 1)
    ELSE PairRows(msgs, i + 1)

\* _load_chat_history_as_list() when the current chat is chat_id; fails:
\* get_chat_messages raises
load_chat_history_as_list(chat_id, fails) ==
    IF chat_id # NoChat
    THEN IF fails THEN <<SystemRow("Error loading chat history")>>
         ELSE PairRows(get_chat_messages(chat_id), 1)
    ELSE <<>>

\* the chat the loop of _select_chat stops at: the first of get_all_chats
\* with the title, NoChat when the loop ends without a match
FirstWithTitle(title) ==
    LET all == get_all_chats
        hits == {i \in 1..Len(all) : all[i].title = title}
    IN IF hits = {} THEN NoChat
       ELSE all[CHOOSE i \in hits : \A j \in hits : i <= j].id

\* what a call of the persistence layer does in a handler of the UI
Faults == {"none", "get_all_chats", "get_chat_messages"}

\* _select_chat(title)
SelectChat(title, fault) ==
    /\ pc = "idle"
    /\ IF fault = "get_all_chats"
       THEN /\ chat_window' = <<SystemRow("Error loading chat")>>
            /\ UNCHANGED current_chat_id
       ELSE /\ current_chat_id' =
                  IF FirstWithTitle(title) # NoChat
                  THEN FirstWithTitle(title)
                  ELSE current_chat_id
            /\ chat_window' =
                  load_chat_history_as_list(current_chat_id',
                                            fault = "get_chat_messages")
    /\ UNCHANGED <<pc, retriever, db, user_msg, turnLocal, exc, output, hist,
                   userIdx, abandoned, turns>>

\* _new_chat(): create_new_chat(), then the empty window
NewChat ==
    /\ pc = "idle"
    /\ Len(chats) < MaxChats
    /\ \/ /\ chats' = Append(chats, <<"New Chat">>)
          /\ current_chat_id' = Len(chats) + 1
          /\ chat_window' = <<>>
       \/ /\ chat_window' = <<SystemRow("Error creating chat")>>
          /\ UNCHANGED <<chats, current_chat_id>>
    /\ UNCHANGED <<pc, retriever, chat_messages, user_msg, turnLocal, exc,
                   output, hist, userIdx, abandoned, turns>>

\* the titles a chat may carry: the one create_chat gives it, or the one a
\* turn gives it
Titles == {<<"New Chat">>} \cup {ShortTitle(u) : u \in UserMsgs}

\* the i-th message persisted (every message has a text of its own)
Text(i) == <<"message", ToString(i)>>

\* The tables after turns and clicks: up to MaxChats chats, up to MaxRows
\* messages, each in any of the chats and of either role (a turn that
\* ends before line 161 leaves a user message alone, a switch of the
\* current chat during a turn leaves a bot message alone).
InitChats ==
    \E n \in 0..MaxChats, m \in 0..MaxRows :
      \E titles \in [1..n -> Titles],
         rows \in [1..m -> (1..n) \X {"user", "bot"}] :
        /\ pc = "idle"
        /\ retriever = TRUE
        /\ current_chat_id \in 0..n
        /\ chats = titles
        /\ chat_messages =
              [i \in 1..m |-> Row(rows[i][1], rows[i][2], Text(i))]
        /\ user_msg = <<>>
        /\ messages = <<>>
        /\ tool_calls = <<>>
        /\ idx = 1
        /\ function_calls_made = <<>>
        /\ iteration = 0
        /\ full_response = <<>>
        /\ exc = NoneV
        /\ output = <<>>
        /\ modelCalls = 0
        /\ streamCalls = 0
        /\ chunksSeen = 0
        /\ chunks = <<>>
        /\ requested = <<>>
        /\ dispatchLog = <<>>
        /\ lastContent = [isNone |-> TRUE, text |-> <<>>]
        /\ userIdx = 0
        /\ chat_window = <<>>
        /\ abandoned = FALSE
        /\ turns = <<>>

NextChats ==
    \/ \E title \in Titles, fault \in Faults : SelectChat(title, fault)
    \/ NewChat

SpecChats == InitChats /\ [][NextChats]_vars

\* ------------------------------------------------ the rows of a chat
\* _load_chat_history_as_list() on two chats that hold up to MaxRows
\* messages between them, in any order and of either role
LoadChatHistory(fails) ==
    /\ pc = "idle"
    /\ chat_window' = load_chat_history_as_list(current_chat_id, fails)
    /\ UNCHANGED <<pc, retriever, current_chat_id, db, user_msg, turnLocal,
                   exc, output, hist, userIdx, abandoned, turns>>

InitHistory ==
    \E m \in 0..MaxRows :
      \E rows \in [1..m -> {1, 2} \X {"user", "bot"}] :
        /\ pc = "idle"
        /\ retriever = TRUE
        /\ current_chat_id \in {NoChat, 1, 2}
        /\ chats = << <<"New Chat">>, <<"New Chat">> >>
        /\ chat_messages =
              [i \in 1..m |-> Row(rows[i][1], rows[i][2], Text(i))]
        /\ user_msg = <<>>
        /\ messages = <<>>
        /\ tool_calls = <<>>
        /\ idx = 1
        /\ function_calls_made = <<>>
        /\ iteration = 0
        /\ full_response = <<>>
        /\ exc = NoneV
        /\ output = <<>>
        /\ modelCalls = 0
        /\ streamCalls = 0
        /\ chunksSeen = 0
        /\ chunks = <<>>
        /\ requested = <<>>
        /\ dispatchLog = <<>>
        /\ lastContent = [isNone |-> TRUE, text |-> <<>>]
        /\ userIdx = 0
        /\ chat_window = <<>>
        /\ abandoned = FALSE
        /\ turns = <<>>

SpecHistory ==
    InitHistory /\ [][\E fails \in BOOLEAN : LoadChatHistory(fails)]_vars

\* ------------------------------------------------ a request of the UI
\* _respond(user_input, history) from its first yield on: lines 78-79 have
\* put the row [user_input, None] in the window (None is shown as no text)
InitRespond ==
    \E u \in UserMsgs :
        /\ pc = "idle"
        /\ retriever \in BOOLEAN
        /\ current_chat_id = NoChat
        /\ chats = <<>>
        /\ chat_messages = <<>>
        /\ user_msg = <<>>
        /\ messages = <<>>
        /\ tool_calls = <<>>
        /\ idx = 1
        /\ function_calls_made = <<>>
        /\ iteration = 0
        /\ full_response = <<>>
        /\ exc = NoneV
        /\ output = <<>>
        /\ modelCalls = 0
        /\ streamCalls = 0
        /\ chunksSeen = 0
        /\ chunks = <<>>
        /\ requested = <<>>
        /\ dispatchLog = <<>>
        /\ lastContent = [isNone |-> TRUE, text |-> <<>>]
        /\ userIdx = 0
        /\ chat_window = <<UiRow(u, <<>>)>>
        /\ abandoned = FALSE
        /\ turns = <<>>

\* bot_response += partial, over every partial the generator has yielded
bot_response == Flatten([i \in 1..Len(output) |-> output[i].text])

\* lines 91-103: asyncio.run(collect_all()) has drained the generator;
\* either it returns the partial results and the last of them stays in the
\* window, or the exception that left the generator leaves asyncio.run
\* too and the except clause shows the error in the place of the results
RespondEnd ==
    /\ TurnOver
    /\ chat_window' =
          [chat_window EXCEPT ![Len(chat_window)] =
              UiRow(user_msg,
                    IF pc = "raised"
                    THEN ErrorText("persistence error")
                    ELSE bot_response)]
    /\ pc' = "responded"
    /\ UNCHANGED <<retriever, current_chat_id, db, user_msg, turnLocal, exc,
                   output, hist, userIdx, abandoned, turns>>

\* the user gives the request up (stops it, leaves the page) while
\* asyncio.run(collect_all()) is draining the generator: nothing in lines
\* 22-240 or 81-96 reads a cancellation
Abandon ==
    /\ pc \notin {"idle", "responded"}
    /\ ~TurnOver
    /\ ~abandoned
    /\ abandoned' = TRUE
    /\ UNCHANGED <<pc, retriever, current_chat_id, db, user_msg, turnLocal,
                   exc, output, hist, userIdx, chat_window, turns>>

NextRespond ==
    \/ Next
    \/ RespondEnd
    \/ Abandon

SpecRespond == InitRespond /\ [][NextRespond]_vars

\* ------------------------------------- concurrent calls on one handler
\* Gradio serves every event in a worker thread: calls of _respond (each
\* runs its generator in an event loop of its own), of _select_chat and of
\* _new_chat run concurrently on the one ChatHandler. A call of the
\* generator is kept here by what it does to the state the calls share,
\* self.current_chat_id and the tables; the model's replies and the tools
\* touch neither. The persistence calls return.
Threads == 1..MaxThreads

\* the message of the turn thread t serves
UserOf(t) == <<"question", ToString(t)>>

\* the generator of thread t: its position, the value line 25 read, the
\* chat line 26 created, and the chats its writes went to (NoChat: none)
TurnOf(position, started, created, user_chat, bot_chat, title_chat) ==
    [pc |-> position, started |-> started, created |-> created,
     user_chat |-> user_chat, bot_chat |-> bot_chat,
     title_chat |-> title_chat]

\* line 25: if self.current_chat_id is None
TurnStart(t) ==
    /\ turns[t].pc = "idle"
    /\ turns' = [turns EXCEPT ![t] =
          TurnOf(IF current_chat_id = NoChat THEN "create" ELSE "add_user",
                 current_chat_id, NoChat, NoChat, NoChat, NoChat)]
    /\ UNCHANGED <<pc, retriever, current_chat_id, db, user_msg, turnLocal,
                   exc, output, hist, userIdx, chat_window, abandoned>>

\* line 26: self.current_chat_id = create_chat("New Chat")
TurnCreate(t) ==
    /\ turns[t].pc = "create"
    /\ chats' = Append(chats, <<"New Chat">>)
    /\ current_chat_id' = Len(chats) + 1
    /\ turns' = [turns EXCEPT ![t].pc = "add_user",
                              ![t].created = Len(chats) + 1]
    /\ UNCHANGED <<pc, retriever, chat_messages, user_msg, turnLocal, exc,
                   output, hist, userIdx, chat_window, abandoned>>

\* line 28: add_message(self.current_chat_id, "user", user_msg)
TurnAddUser(t) ==
    /\ turns[t].pc = "add_user"
    /\ chat_messages' =
          Append(chat_messages, Row(current_chat_id, "user", UserOf(t)))
    /\ turns' = [turns EXCEPT ![t].pc = "answer",
                              ![t].user_chat = current_chat_id]
    /\ UNCHANGED <<pc, retriever, current_chat_id, chats, user_msg,
                   turnLocal, exc, output, hist, userIdx, chat_window,
                   abandoned>>

\* lines 31-158: the answer is generated, or an exception reaches the
\* except clause
TurnAnswer(t) ==
    /\ turns[t].pc = "answer"
    /\ \E next \in {"save_bot", "except"} :
          turns' = [turns EXCEPT ![t].pc = next]
    /\ UNCHANGED <<pc, retriever, current_chat_id, db, user_msg, turnLocal,
                   exc, output, hist, userIdx, chat_window, abandoned>>

\* line 161: add_message(self.current_chat_id, "bot", full_response)
TurnSaveBot(t) ==
    /\ turns[t].pc = "save_bot"
    /\ chat_messages' =
          Append(chat_messages,
                 Row(current_chat_id, "bot", <<"answer">> \o UserOf(t)))
    /\ turns' = [turns EXCEPT ![t].pc = "title",
                              ![t].bot_chat = current_chat_id]
    /\ UNCHANGED <<pc, retriever, current_chat_id, chats, user_msg,
                   turnLocal, exc, output, hist, userIdx, chat_window,
                   abandoned>>

\* lines 164-165: update_chat_title(self.current_chat_id, short_title);
\* lines 167-235 touch nothing the calls share
TurnTitle(t) ==
    /\ turns[t].pc = "title"
    /\ chats' = [chats EXCEPT ![current_chat_id] = ShortTitle(UserOf(t))]
    /\ turns' = [turns EXCEPT ![t].pc = "over",
                              ![t].title_chat = current_chat_id]
    /\ UNCHANGED <<pc, retriever, current_chat_id, chat_messages, user_msg,
                   turnLocal, exc, output, hist, userIdx, chat_window,
                   abandoned>>

\* line 240: add_message(self.current_chat_id, "bot", error_msg)
TurnExcept(t) ==
    /\ turns[t].pc = "except"
    /\ chat_messages' =
          Append(chat_messages,
                 Row(current_chat_id, "bot", ErrorText("model error")))
    /\ turns' = [turns EXCEPT ![t].pc = "over",
                              ![t].bot_chat = current_chat_id]
    /\ UNCHANGED <<pc, retriever, current_chat_id, chats, user_msg,
                   turnLocal, exc, output, hist, userIdx, chat_window,
                   abandoned>>

\* the titles the selector may offer
TitlesOfTurns ==
    {<<"New Chat">>} \cup {ShortTitle(UserOf(t)) : t \in Threads}

InitConcurrent ==
    /\ pc = "idle"
    /\ retriever = TRUE
    /\ current_chat_id = NoChat
    /\ chats = <<>>
    /\ chat_messages = <<>>
    /\ user_msg = <<>>
    /\ messages = <<>>
    /\ tool_calls = <<>>
    /\ idx = 1
    /\ function_calls_made = <<>>
    /\ iteration = 0
    /\ full_response = <<>>
    /\ exc = NoneV
    /\ output = <<>>
    /\ modelCalls = 0
    /\ streamCalls = 0
    /\ chunksSeen = 0
    /\ chunks = <<>>
    /\ requested = <<>>
    /\ dispatchLog = <<>>
    /\ lastContent = [isNone |-> TRUE, text |-> <<>>]
    /\ userIdx = 0
    /\ chat_window = <<>>
    /\ abandoned = FALSE
    /\ turns = [t \in Threads |->
                  TurnOf("idle", NoChat, NoChat, NoChat, NoChat, NoChat)]

NextConcurrent ==
    \/ \E t \in Threads :
          \/ TurnStart(t)
          \/ TurnCreate(t)
          \/ TurnAddUser(t)
          \/ TurnAnswer(t)
          \/ TurnSaveBot(t)
          \/ TurnTitle(t)
          \/ TurnExcept(t)
    \/ \E title \in TitlesOfTurns : SelectChat(title, "none")
    \/ NewChat

SpecConcurrent == InitConcurrent /\ [][NextConcurrent]_vars

\* ---------------------------------------------------------------- claims
\* positions the turn reaches only by leaving the tool loop
AfterLoop == {"stream_open", "streaming", "save_bot", "title", "provenance",
              "done"}

\* positions after the answer has been saved
AfterSave == {"title", "provenance", "done"}

IsPrefix(a, b) == Len(a) <= Len(b) /\ a = SubSeq(b, 1, Len(a))

HasKind(kind) == \E i \in 1..Len(output) : output[i].kind = kind

\* the rows persisted in this turn after its user message
RowsAfterUser ==
    IF userIdx = 0 THEN <<>>
    ELSE SubSeq(chat_messages, userIdx + 1, Len(chat_messages))

IsBotRowOfTurn(r) ==
    r.role = "bot" /\ r.chat_id = chat_messages[userIdx].chat_id

\* the join of the token events yielded so far
RECURSIVE JoinTokens(_)
JoinTokens(evs) ==
    IF evs = <<>> THEN <<>>
    ELSE (IF Head(evs).kind = "token" THEN Head(evs).text ELSE <<>>)
         \o JoinTokens(Tail(evs))

\* responses after the first that asked for tools
AdditionalRounds ==
    Cardinality({i \in 2..Len(requested) : requested[i] # <<>>})

\* C1: in one turn the non-streaming model is invoked at most 4 times and
\* at most 3 rounds of tool calls follow the first round, whatever the
\* model answers.
C1_BoundedRounds ==
    /\ modelCalls <= 4
    /\ Len(requested) <= 4
    /\ AdditionalRounds <= 3

\* every response of the turn asked for tools and the loop was left at the
\* bound
C1_Witness ==
    /\ pc = "stream_open"
    /\ modelCalls = 4
    /\ Len(requested) = 4
    /\ \A i \in 1..4 : requested[i] # <<>>

\* the model asked for exactly one tool in every response it gave
OneToolEveryResponse ==
    /\ requested # <<>>
    /\ \A i \in 1..Len(requested) : Len(requested[i]) = 1

C3_BotMessageAfterUser ==
    (TurnOver /\ userIdx # 0) =>
        \E i \in 1..Len(RowsAfterUser) : IsBotRowOfTurn(RowsAfterUser[i])

\* a call of a registered function that raised: its arguments took no
\* update, did not bind to the signature, or the body raised
CallRaised(fc) ==
    /\ fc.function \in TOOL_FUNCTIONS
    /\ \/ ~IsDict(fc.arguments)
       \/ Raised(CallTool(fc.function, fc.arguments, {}))

\* C4: execute_function_call never raises to the orchestrator (every call
\* handed to it is recorded with its result), and a call of a registered
\* function that raised is recorded with success false, an error message
\* and no data.
C4_ToolExceptionsContained ==
    /\ Len(function_calls_made) = Len(dispatchLog)
    /\ \A i \in 1..Len(function_calls_made) :
          LET fc == function_calls_made[i] IN
          /\ fc.function = dispatchLog[i].name
          /\ CallRaised(fc) =>
                /\ fc.result.keys = {"success", "error"}
                /\ fc.result.success = FALSE
                /\ fc.result.error # NoneV

\* the body of a registered function raised and the turn went on
C4_Witness ==
    /\ pc = "done"
    /\ \E i \in 1..Len(function_calls_made) :
          LET fc == function_calls_made[i] IN
          /\ fc.function \in TOOL_FUNCTIONS
          /\ IsDict(fc.arguments)
          /\ BodyRaises(fc.function, fc.arguments)

\* every request received so far has its tool-result message in the history
RequestsAnswered ==
    \A i \in 1..RequestedCount :
        \E j \in 1..Len(messages) :
           /\ messages[j].role = "tool"
           /\ messages[j].tool_call_id = Flatten(requested)[i].id

\* C5: no tool-call request takes the turn to the except clause (the turn
\* enters it only for a failure of the model or of the persistence layer),
\* and where the model is invoked next every request, failed or not, has
\* its tool-result message in the history.
C5_NoRequestAbortsTurn ==
    /\ pc \in {"except", "failed", "raised"} =>
          exc \in {NoneV, "model error", "stream error", "persistence error"}
    /\ pc \in {"loop", "stream_open"} => RequestsAnswered

\* the result of every call dispatched is in the history
ResultsAppended ==
    \A i \in 1..Len(dispatchLog) :
        \E j \in 1..Len(messages) :
           /\ messages[j].role = "tool"
           /\ messages[j].tool_call_id = dispatchLog[i].id

\* C6: the tool calls are dispatched one at a time in the order the model
\* listed them and none twice; where the model is invoked next every one of
\* them has been dispatched and its result appended to the history; and by
\* the end of the turn every request has been dispatched exactly once.
C6_EachRequestDispatchedOnce ==
    /\ IsPrefix(dispatchLog, Flatten(requested))
    /\ pc \in {"loop", "stream_open"} =>
          dispatchLog = Flatten(requested) /\ ResultsAppended
    /\ TurnOver => dispatchLog = Flatten(requested)

Rank(kind) ==
    CASE kind = "echo" -> 0
      [] kind = "progress" -> 1
      [] kind = "token" -> 2
      [] kind = "provenance" -> 3
      [] OTHER -> 4

\* C7: as long as the turn has not failed, its output is the echo, then
\* progress markers, then answer tokens, then provenance events, and the
\* echo is out before the model is invoked.
C7_OutputOrdered ==
    ~HasKind("error") =>
        /\ \A i \in 1..(Len(output) - 1) :
              /\ Rank(output[i].kind) <= Rank(output[i + 1].kind)
              /\ output[i + 1].kind # "echo"
        /\ output # <<>> => output[1] = Event("echo", user_msg)
        /\ modelCalls + streamCalls > 0 => output # <<>>

C7_Witness ==
    /\ pc = "done"
    /\ HasKind("progress")
    /\ HasKind("token")
    /\ HasKind("provenance")
    /\ Len(output) >= 6

\* the first response of the turn carried no tool calls
FirstResponseToolFree == requested # <<>> /\ requested[1] = <<>>

DirectOutput ==
    <<Event("echo", user_msg), Event("token", ContentOrEmpty(lastContent))>>

\* C8 as stated: a turn whose first response has no tool calls ends with
\* one model invocation and the output echo, content and nothing else.
C8_OutputIsEchoAndContent ==
    (TurnOver /\ FirstResponseToolFree) =>
        /\ modelCalls = 1
        /\ streamCalls = 0
        /\ output = DirectOutput

\* C8 amended: such a turn makes one model invocation and yields the echo
\* and the content, no progress marker and no provenance; one error event
\* follows them if and only if saving the answer or the title raised.
C8_OutputIsEchoContentOrError ==
    FirstResponseToolFree =>
        /\ modelCalls = 1
        /\ streamCalls = 0
        /\ IF pc \in {"except", "save_bot"} \cup AfterSave
           THEN output = DirectOutput
           ELSE /\ pc \in {"failed", "raised"}
                /\ exc = "persistence error"
                /\ output = Append(DirectOutput,
                                   Event("error", ErrorText(exc)))

C8_Witness ==
    /\ pc = "done"
    /\ FirstResponseToolFree
    /\ ~lastContent.isNone
    /\ output = DirectOutput

\* the latest response of the model carried no tool calls
LastResponseToolFree ==
    requested # <<>> /\ requested[Len(requested)] = <<>>

\* C9 as stated: a response without tool calls, the first or a later one,
\* gives the answer that is saved, and the model is not invoked again.
C9_ToolFreeContentIsAnswer ==
    (pc = "done" /\ LastResponseToolFree) =>
        /\ streamCalls = 0
        /\ full_response = ContentOrEmpty(lastContent)

\* C9 amended: the content of a first response without tool calls is the
\* answer yielded and, once saved, the bot message, and the model is not
\* invoked again; after a later response without tool calls the model is
\* not asked for tools again, its content is dropped, and one streaming
\* invocation yields the answer that is saved.
C9_ToolFreeFirstOrStreamed ==
    LastResponseToolFree =>
        /\ modelCalls = Len(requested)
        /\ IF Len(requested) = 1
           THEN /\ streamCalls = 0
                /\ full_response = ContentOrEmpty(lastContent)
                /\ output[2] = Event("token", full_response)
           ELSE /\ pc \in AfterLoop =>
                    streamCalls = (IF pc = "stream_open" THEN 0 ELSE 1)
                /\ streamCalls <= 1
                /\ pc \in AfterLoop \ {"stream_open"} =>
                      full_response = JoinTokens(output)
        /\ pc \in AfterSave =>
              /\ Len(RowsAfterUser) = 1
              /\ IsBotRowOfTurn(RowsAfterUser[1])
              /\ RowsAfterUser[1].content = full_response

\* a later response without tool calls carried a content, and the answer
\* saved is the streamed one
C9_Witness ==
    /\ pc = "done"
    /\ LastResponseToolFree
    /\ Len(requested) > 1
    /\ ~lastContent.isNone
    /\ full_response # <<>>
    /\ full_response # ContentOrEmpty(lastContent)

\* C10: every tool message of the history carries the id of a tool call of
\* an assistant message that precedes it.
C10_ToolMessagesReferToCalls ==
    \A i \in 1..Len(messages) :
        messages[i].role = "tool" =>
            \E j \in 1..(i - 1) :
               /\ messages[j].role = "assistant"
               /\ \E k \in 1..Len(messages[j].tool_calls) :
                     messages[j].tool_calls[k].id = messages[i].tool_call_id

C10_Witness ==
    Cardinality({i \in 1..Len(messages) : messages[i].role = "tool"}) >= 3

\* the failures of the three model invocations
ModelErrors == {"model error", "stream error"}

ErrorEvents == SelectSeq(output, LAMBDA ev : ev.kind = "error")

\* C11: when a model invocation raises, the turn goes to its except clause
\* (from where no model is invoked and no tool dispatched), yields one
\* 'Error: <message>' event as its last event and ends with exactly that
\* text persisted as the bot message of the turn.
C11_ModelFailureEndsTurn ==
    exc \in ModelErrors =>
        /\ pc \in {"except", "failed", "raised"}
        /\ TurnOver =>
              /\ ErrorEvents = <<Event("error", ErrorText(exc))>>
              /\ output[Len(output)].kind = "error"
              /\ RowsAfterUser =
                    <<Row(current_chat_id, "bot", ErrorText(exc))>>

\* the request dispatched and the envelope execute_function_call returned
Dispatched == function_calls_made # <<>>
Request == dispatchLog[1]
Result == function_calls_made[1].result

\* C12: every value execute_function_call returns, for an unknown name, a
\* body that raises and a body that returns, carries the boolean field
\* success and exactly one of data and error: data when success is true,
\* error when it is false.
C12_EnvelopeWellFormed ==
    Dispatched =>
        /\ "success" \in Result.keys
        /\ Result.success \in BOOLEAN
        /\ Result.keys \ {"success"} =
              (IF Result.success THEN {"data"} ELSE {"error"})
        /\ ~Result.success => Result.error # NoneV

\* the request names a registered tool and its arguments satisfy the
\* schema declared for it
SatisfiesSchema(tc) ==
    /\ tc.name \in TOOL_FUNCTIONS
    /\ SchemaRequired(tc.name) \subseteq tc.args
    /\ tc.illTyped = {}

\* C13: execute_function_call returns success true and no error exactly
\* when the request names a registered tool and its arguments satisfy the
\* tool's schema (required parameters present, values of the declared
\* type); in every other case the envelope is a failed one.
C13_SuccessIffSchemaSatisfied ==
    Dispatched =>
        /\ SatisfiesSchema(Request) <=>
              (GetSuccess(Result) /\ "error" \notin Result.keys)
        /\ ~SatisfiesSchema(Request) =>
              ("success" \in Result.keys /\ ~Result.success)

\* C14: a parameter the schema of the tool does not declare is ignored:
\* the envelope is the one the same call returns without that parameter.
C14_UndeclaredParamIgnored ==
    (Dispatched /\ Request.name \in TOOL_FUNCTIONS
                /\ UndeclaredParam \in Request.args) =>
        Result = execute_function_call(Request.name,
                                       Request.args \ {UndeclaredParam},
                                       InjectedKwargs(Request.name)).value

\* the role a persisted row takes in the history sent to the model
RoleInHistory(role) == IF role = "user" THEN "user" ELSE "assistant"

\* the rows of the current conversation persisted before this turn's user
\* message
EarlierRows ==
    SelectSeq(SubSeq(chat_messages, 1, userIdx - 1),
              LAMBDA r : r.chat_id = current_chat_id)

\* C15: the history sent to the model holds the messages persisted before
\* for the current conversation, in their order, and after them the new
\* user message.
C15_HistoryHoldsPersisted ==
    (modelCalls >= 1 /\ userIdx # 0) =>
        \E f \in [1..Len(EarlierRows) -> 1..Len(messages)] :
            /\ \A i \in 1..Len(EarlierRows) :
                  /\ messages[f[i]].role = RoleInHistory(EarlierRows[i].role)
                  /\ messages[f[i]].content = EarlierRows[i].content
                  /\ i > 1 => f[i - 1] < f[i]
            /\ \E j \in 1..Len(messages) :
                  /\ messages[j] = Message("user", user_msg, <<>>, 0,
                                           NoEnvelope)
                  /\ \A i \in 1..Len(EarlierRows) : f[i] < j

\* the message of the first turn of the current conversation
FirstUserRows ==
    SelectSeq(chat_messages,
              LAMBDA r : r.chat_id = current_chat_id /\ r.role = "user")

IsFirstTurn == Len(FirstUserRows) = 1 /\ userIdx # 0

\* the persisted title of the current conversation
Title ==
    IF current_chat_id = NoChat THEN <<"New Chat">> ELSE chats[current_chat_id]

\* C16: the first turn of a conversation persists as its title the first
\* four words of its user message, and a title once derived and persisted
\* is left unchanged by the turns that follow.
C16_TitleFromFirstTurn ==
    /\ []((IsFirstTurn /\ pc \in {"provenance", "done"}) =>
             Title = ShortTitle(FirstUserRows[1].content))
    /\ [][Title # <<"New Chat">> => Title' = Title]_vars

\* the first response of the turn asked for tools
UsedTools == requested # <<>> /\ requested[1] # <<>>

TokenEvents == SelectSeq(output, LAMBDA ev : ev.kind = "token")

\* the chunks of the stream that carried a token
NonEmptyChunks == SelectSeq(chunks, LAMBDA c : c # <<>>)

\* C17: in a turn that used tools every non-empty token of the stream is
\* yielded as an event of its own, in the order the model produced them,
\* none merged, reordered or dropped, and the bot message persisted
\* afterwards is the concatenation of those tokens in that order.
C17_TokensInOrderAndSaved ==
    UsedTools =>
        /\ Len(TokenEvents) = Len(NonEmptyChunks)
        /\ \A i \in 1..Len(TokenEvents) :
              TokenEvents[i].text = NonEmptyChunks[i]
        /\ pc \in AfterSave =>
              /\ Len(RowsAfterUser) = 1
              /\ IsBotRowOfTurn(RowsAfterUser[1])
              /\ RowsAfterUser[1].content = Flatten(chunks)

\* a stream of more than one token, and the answer saved
C17_Witness ==
    /\ pc = "done"
    /\ UsedTools
    /\ Len(NonEmptyChunks) >= 2
    /\ RowsAfterUser[1].content = Token(1) \o Token(2)

\* the events of the summary, in the order they were yielded
ProvOut == SelectSeq(output, LAMBDA ev : ev.kind = "provenance")

IsLine(ev, what) ==
    Len(ev.text) = 3 /\ ev.text[1] = "Source:" /\ ev.text[2] = what

IsChart(ev) == Len(ev.text) = 2 /\ ev.text[1] = "chart"

\* the number a line or a chart event ends with
NumOf(ev) ==
    CHOOSE n \in 0..(MaxDocs + MaxUrls + MaxProvCalls) :
        ToString(n) = ev.text[Len(ev.text)]

\* the documents, the urls and the images listed, in the order of the lines
DocsOut == [i \in 1..Len(SelectSeq(ProvOut, LAMBDA ev : IsLine(ev, "doc"))) |->
               NumOf(SelectSeq(ProvOut, LAMBDA ev : IsLine(ev, "doc"))[i])]
UrlsOut == [i \in 1..Len(SelectSeq(ProvOut, LAMBDA ev : IsLine(ev, "url"))) |->
               NumOf(SelectSeq(ProvOut, LAMBDA ev : IsLine(ev, "url"))[i])]
ChartsOut == [i \in 1..Len(SelectSeq(ProvOut, IsChart)) |->
                 NumOf(SelectSeq(ProvOut, IsChart)[i])]

\* the calls of the turn that a web search answered with success
WebCalls ==
    { i \in 1..Len(function_calls_made) :
        /\ function_calls_made[i].function = "search_web"
        /\ function_calls_made[i].result.keys = {"success", "data"} }

\* the urls the web searches of the turn returned
UrlsReturned ==
    UNION { Range(function_calls_made[i].result.data.results) \ {0} :
              i \in WebCalls }

\* C18: in the summary of a turn each document source is listed once, the
\* document sources are in ascending order, and at most 3 web source lines
\* are emitted whatever the web searches returned.
C18_SourcesSortedWebCapped ==
    /\ \A i \in 1..(Len(DocsOut) - 1) : DocsOut[i] < DocsOut[i + 1]
    /\ Len(UrlsOut) <= 3

\* two document searches cited the same document, not in ascending order,
\* and the web searches returned more than 3 urls
C18_Witness ==
    /\ pc = "done"
    /\ Len(DocsOut) >= 2
    /\ \E i, j \in 1..Len(function_calls_made) :
          /\ i # j
          /\ function_calls_made[i].function = "search_documents"
          /\ function_calls_made[j].function = "search_documents"
          /\ Range(function_calls_made[i].result.data.sources) \cap
             Range(function_calls_made[j].result.data.sources) # {}
    /\ Cardinality(UrlsReturned) > 3
    /\ Len(UrlsOut) = 3

\* the elements of a sequence, each once, in the order of their first
\* occurrence
RECURSIVE FirstSeen(_, _)
FirstSeen(seq, seen) ==
    IF seq = <<>> THEN <<>>
    ELSE IF Head(seq) \in seen THEN FirstSeen(Tail(seq), seen)
         ELSE <<Head(seq)>> \o FirstSeen(Tail(seq), seen \cup {Head(seq)})

\* the urls recorded in the turn (those of the first 3 results of each
\* successful web search), in the order of the calls and of their results
UrlsRecorded ==
    SelectSeq(
        Flatten([i \in 1..Len(function_calls_made) |->
                    IF i \in WebCalls
                    THEN Take(function_calls_made[i].result.data.results, 3)
                    ELSE <<>>]),
        LAMBDA u : u # 0)

\* C19: the Web Sources block lists the first 3 distinct urls recorded in
\* the turn (all of them when fewer were recorded), in the order in which
\* they were first seen.
C19_WebSourcesFirstSeen ==
    (pc = "done" /\ function_calls_made # <<>>) =>
        UrlsOut = Take(FirstSeen(UrlsRecorded, {}), 3)

\* the k-th smallest element of a set of numbers
Kth(S, k) == CHOOSE x \in S : Cardinality({y \in S : y < x}) = k - 1

\* the calls that name a tool no earlier call of the turn named
NewTools ==
    { i \in 1..Len(function_calls_made) :
        \A j \in 1..(i - 1) :
           function_calls_made[j].function # function_calls_made[i].function }

\* the calls that drew a chart
ChartCalls ==
    { i \in 1..Len(function_calls_made) :
        /\ function_calls_made[i].function \in
              {"create_performance_comparison", "create_performance_chart"}
        /\ function_calls_made[i].result.keys = {"success", "data"}
        /\ function_calls_made[i].result.data.chart # 0 }

\* the place of an event in the summary
Part(ev) ==
    IF ev.text[1] = "Tools used:" THEN 0
    ELSE IF ev.text = <<"Sources:">> \/ IsLine(ev, "doc") THEN 1
    ELSE IF ev.text = <<"Web Sources:">> \/ IsLine(ev, "url") THEN 2
    ELSE 3

\* C20: the summary of a turn that executed tool calls names each distinct
\* tool once in first-seen order, then lists the Sources block, then the
\* Web Sources block, then one chart per call that drew one, in the order
\* of the calls.
C20_SummaryOrdered ==
    (pc = "done" /\ function_calls_made # <<>>) =>
        /\ ProvOut # <<>>
        /\ ProvOut[1].text =
              <<"Tools used:">> \o
              [k \in 1..Cardinality(NewTools) |->
                  tool_name_map(function_calls_made[Kth(NewTools, k)].function)]
        /\ \A i \in 1..(Len(ProvOut) - 1) :
              /\ Part(ProvOut[i]) <= Part(ProvOut[i + 1])
              /\ Part(ProvOut[i + 1]) # 0
        /\ ChartsOut =
              [k \in 1..Cardinality(ChartCalls) |->
                  function_calls_made[Kth(ChartCalls, k)].result.data.chart]
        /\ Len(SelectSeq(ProvOut, IsChart)) = Cardinality(ChartCalls)
        /\ Len(ProvOut) = 1 + Len(DocsOut) + Len(UrlsOut) + Len(ChartsOut)
                          + (IF DocsOut = <<>> THEN 0 ELSE 1)
                          + (IF UrlsOut = <<>> THEN 0 ELSE 1)

\* a document search, a web search and a chart in one turn
C20_Witness ==
    /\ pc = "done"
    /\ Len(ProvOut[1].text) = 4
    /\ DocsOut # <<>>
    /\ UrlsOut # <<>>
    /\ ChartsOut # <<>>

\* ---- C24
\* the steps the turn has left at most, by its position: the passes of the
\* for loop left, the rounds of the while loop left, the chunks left
StepsAfterLoop == 7 + MaxChunks
StepsPerRound == MaxCallsPerResponse + 1
StepsFromLoop == StepsAfterLoop + max_iterations * StepsPerRound
PassesLeft == Len(tool_calls) - idx + 1

Measure ==
    CASE TurnOver -> 0
      [] pc = "except" -> 1
      [] pc = "provenance" -> 2
      [] pc = "title" -> 3
      [] pc = "save_bot" -> 4
      [] pc = "streaming" -> 5 + (MaxChunks - chunksSeen)
      [] pc = "stream_open" -> 6 + MaxChunks
      [] pc = "loop" ->
            StepsAfterLoop + (max_iterations - iteration) * StepsPerRound
      [] pc = "tool_more" ->
            StepsAfterLoop + (max_iterations - iteration) * StepsPerRound
            + PassesLeft
      [] pc = "tool_first" -> StepsFromLoop + PassesLeft
      [] pc = "invoke_first" -> StepsFromLoop + StepsPerRound
      [] pc = "add_user" -> StepsFromLoop + StepsPerRound + 1
      [] pc = "create" -> StepsFromLoop + StepsPerRound + 2
      [] pc = "idle" -> StepsFromLoop + StepsPerRound + 3

\* what a turn does: output events, model invocations, tool dispatches and
\* persistence writes
Activity == <<output, modelCalls, streamCalls, dispatchLog, chats,
              chat_messages>>

\* C24: every turn terminates. Each step of the turn (a model invocation, a
\* tool call, a chunk of the stream or a persistence call that returns or
\* raises) lowers a measure that is never negative and is 0 exactly when the
\* generator has returned or an exception has left it, so the turn is over
\* after a bounded number of steps; once it is over it yields no event and
\* makes no model invocation, tool dispatch or persistence write.
C24_TurnTerminates ==
    /\ [](Measure >= 0 /\ (Measure = 0 <=> TurnOver))
    /\ [][Measure' < Measure]_vars
    /\ [][TurnOver => UNCHANGED Activity]_vars

\* a turn that used every round of the loop and every chunk of the stream
\* is over
C24_Witness ==
    /\ pc = "done"
    /\ iteration = max_iterations
    /\ chunksSeen = MaxChunks
    /\ Len(dispatchLog) = MaxToolCalls

\* ---- C25
\* positions where lines 33-36 have not built the history yet
BeforeHistory == {"idle", "create", "add_user", "invoke_first"}

\* the two messages lines 73-82 and 125-134 append for the i-th dispatch
PairOf(i) ==
    <<Message("assistant", <<>>, <<dispatchLog[i]>>, 0, NoEnvelope),
      Message("tool", <<"json.dumps">>, <<>>, dispatchLog[i].id,
              function_calls_made[i].result)>>

HistoryOfTurn ==
    <<Message("system", SYSTEM_PROMPT, <<>>, 0, NoEnvelope),
      Message("user", user_msg, <<>>, 0, NoEnvelope)>> \o
    Flatten([i \in 1..Len(dispatchLog) |-> PairOf(i)])

\* C25: once the history of the turn exists it is the system message, the
\* user message and then, per dispatched tool call in dispatch order, the
\* assistant message carrying the call immediately followed by the message
\* carrying its result; a step only appends to it, and by exactly two
\* messages per tool call it dispatches.
C25_HistoryIsPairsPerDispatch ==
    /\ [](messages # <<>> =>
            /\ Len(function_calls_made) = Len(dispatchLog)
            /\ messages = HistoryOfTurn)
    /\ [](messages = <<>> => pc \in BeforeHistory \cup {"raised"})
    /\ [][messages # <<>> =>
            /\ IsPrefix(messages, messages')
            /\ Len(messages') - Len(messages) =
                  2 * (Len(dispatchLog') - Len(dispatchLog))]_vars

\* three tool calls have been dispatched in two rounds and the history has
\* grown by six messages
C25_Witness ==
    /\ pc = "done"
    /\ Len(dispatchLog) = 3
    /\ Len(requested[1]) = 2
    /\ Len(messages) = 2 + 6

\* ---- C26
\* the bot rows persisted after the user message of the turn
BotRowsOfTurn ==
    {i \in 1..Len(chat_messages) :
        userIdx > 0 /\ i > userIdx /\ chat_messages[i].role = "bot"}

\* C26: a turn persists at most one bot message: after the answer has been
\* saved no second bot message is persisted for the same user message.
C26_OneBotMessagePerTurn == Cardinality(BotRowsOfTurn) <= 1

\* ---- C27
\* the call of the request has reached the body of a registered function
ReachedBody ==
    /\ Request.name \in TOOL_FUNCTIONS
    /\ IsDict(Request.args)
    /\ BindsToSignature(Request.name,
                        Request.args \cup InjectedKwargs(Request.name))

\* the origin of the value the body received as its retriever
RetrieverReceived ==
    RetrieverArgument(Request.args, InjectedKwargs(Request.name))

\* C27: the retriever handed to search_documents is always the one injected
\* into the handler: a value the model supplies under the name retriever
\* never reaches the body of a tool (with no retriever injected,
\* search_documents returns no data), and no tool other than
\* search_documents receives the injected retriever.
C27_OnlyInjectedRetriever ==
    Dispatched =>
        /\ ReachedBody => RetrieverReceived # "model"
        /\ (Request.name = "search_documents" /\ ~retriever) =>
              ~GetSuccess(Result)
        /\ Request.name # "search_documents" =>
              InjectedKwargs(Request.name) = {}

\* ---- C28
\* C28: the names advertised to the model are the names the registry holds,
\* none of them twice, and a request for an advertised tool is never
\* answered with "Function ... not found".
C28_AdvertisedAreRegistered ==
    /\ Advertised = TOOL_FUNCTIONS
    /\ \A i, j \in 1..Len(AVAILABLE_TOOLS) :
          AVAILABLE_TOOLS[i] = AVAILABLE_TOOLS[j] => i = j
    /\ (Dispatched /\ Request.name \in Advertised) =>
          /\ "success" \in Result.keys
          /\ Result.error # "not found"

\* a request for the last tool of the list has been dispatched and answered
\* by the registry
C28_Witness ==
    /\ Dispatched
    /\ Request.name = AVAILABLE_TOOLS[Len(AVAILABLE_TOOLS)]
    /\ GetSuccess(Result)

\* ---- C30
\* the messages of the current chat
CurrentMessages == get_chat_messages(current_chat_id)

\* the positions of the user messages among them, in persisted order
UserPositions ==
    LET msgs == CurrentMessages IN
    SelectSeq([i \in 1..Len(msgs) |-> i], LAMBDA i : msgs[i].role = "user")

\* the bot message right after position i, or the empty string
BotAfter(i) ==
    LET msgs == CurrentMessages IN
    IF i < Len(msgs) /\ msgs[i + 1].role = "bot"
    THEN msgs[i + 1].content ELSE <<>>

\* one row per user message
RowsPerUserMessage ==
    [k \in 1..Len(UserPositions) |->
        UiRow(CurrentMessages[UserPositions[k]].content,
              BotAfter(UserPositions[k]))]

\* the bot messages not right after a user message
OrphanBots ==
    LET msgs == CurrentMessages IN
    {i \in 1..Len(msgs) :
        msgs[i].role = "bot" /\ (i = 1 \/ msgs[i - 1].role # "user")}

\* what the claim says the window shows
ShowsPairs ==
    /\ chat_window = RowsPerUserMessage
    /\ \A i \in OrphanBots : \A k \in 1..Len(chat_window) :
          chat_window[k].bot # CurrentMessages[i].content

\* C30 as stated: whenever _load_chat_history_as_list returns, it returns
\* one [user, bot] row per user message of the current chat, in persisted
\* order, bot being the content of the bot message right after the user
\* message or the empty string; a bot message not right after a user
\* message is in no row.
C30_OneRowPerUserMessage ==
    [][(\E fails \in BOOLEAN : LoadChatHistory(fails)) => ShowsPairs']_vars

\* C30 amended: that is what it returns when get_chat_messages returns;
\* when get_chat_messages raises it returns the single row ["System",
\* "Error loading chat history: ..."].
C30_OneRowPerUserMessageRead ==
    /\ [][LoadChatHistory(FALSE) => ShowsPairs']_vars
    /\ [][(LoadChatHistory(TRUE) /\ current_chat_id # NoChat) =>
             chat_window' = <<SystemRow("Error loading chat history")>>]_vars

\* the window shows a user message with its answer and one without, and
\* the chat holds a bot message that follows no user message
C30_Witness ==
    /\ ShowsPairs
    /\ OrphanBots # {}
    /\ \E k \in 1..Len(chat_window) : chat_window[k].bot = <<>>
    /\ \E k \in 1..Len(chat_window) : chat_window[k].bot # <<>>

\* ---- C29
\* C29: for every chat c of get_all_chats, a call of _select_chat with the
\* title of c that no persistence failure disturbs leaves current_chat_id
\* equal to the id of c and returns the rows of c's messages; a call with
\* a title no chat has leaves current_chat_id unchanged.
C29_SelectByTitleSelectsChat ==
    [][\A title \in Titles :
          SelectChat(title, "none") =>
              /\ \A c \in 1..Len(get_all_chats) :
                    get_all_chats[c].title = title =>
                        /\ current_chat_id' = get_all_chats[c].id
                        /\ chat_window' =
                              PairRows(get_chat_messages(
                                           get_all_chats[c].id), 1)
              /\ (\A c \in 1..Len(get_all_chats) :
                      get_all_chats[c].title # title)
                   => current_chat_id' = current_chat_id]_vars

\* ---- C22
\* a holds b as a run of consecutive elements
Holds(a, b) ==
    \E k \in 0..(Len(a) - Len(b)) : SubSeq(a, k + 1, k + Len(b)) = b

\* the text of the pending row of the window
ShownToUser == chat_window[Len(chat_window)].bot

\* an answer was generated and saving it, or the title, failed
SavingFailed ==
    /\ exc = "persistence error"
    /\ full_response # <<>>
    /\ \E i \in 1..Len(output) :
          output[i].kind = "token" /\ output[i].text # <<>>

\* C22: when saving the bot message or the title fails, the answer text
\* the turn has produced is delivered through the output stream and shown
\* in the window once the request is served.
C22_AnswerShownDespiteSaveFailure ==
    (pc = "responded" /\ SavingFailed) =>
        /\ Holds(bot_response, full_response)
        /\ Holds(ShownToUser, full_response)

\* ---- C23
\* C23: once the request is abandoned no model invocation and no tool
\* dispatch is started, and every tool call that was dispatched has run to
\* completion (its result is recorded).
C23_NothingStartedAfterAbandon ==
    /\ [][abandoned =>
            /\ modelCalls' = modelCalls
            /\ streamCalls' = streamCalls
            /\ dispatchLog' = dispatchLog]_vars
    /\ [](Len(function_calls_made) = Len(dispatchLog))

\* ---- C21
\* the conversation of the turn of thread t: the chat that was current when
\* it started or, with none, the chat it created
OwnChat(t) ==
    IF turns[t].started # NoChat THEN turns[t].started ELSE turns[t].created

\* the chats that hold a user message of a turn started with no current
\* chat and not the bot message of that turn
LeftWithoutAnswer ==
    {c \in 1..Len(chats) :
        \E t \in Threads :
            /\ turns[t].pc = "over"
            /\ turns[t].started = NoChat
            /\ turns[t].user_chat = c
            /\ turns[t].bot_chat # c}

\* C21: concurrent turns, selections and new-chat actions on one handler
\* do not interfere: the user message, the bot message and the title
\* update of a turn go to the conversation that was current when the turn
\* started (the one it created when there was none), and turns started
\* with no current chat leave no conversation with a user message and
\* without its bot message.
C21_TurnWritesToItsOwnChat ==
    /\ \A t \in Threads :
          /\ turns[t].user_chat \in {NoChat, OwnChat(t)}
          /\ turns[t].bot_chat \in {NoChat, OwnChat(t)}
          /\ turns[t].title_chat \in {NoChat, OwnChat(t)}
    /\ LeftWithoutAnswer = {}

====
